---- MODULE Spec2Model ----
(***************************************************************************)
(* Model of dropbox-upload/upload.py: the polling loop of main, backup,    *)
(* process_snapshot, file_exists, upload_file (with its retrace.retry      *)
(* wrapper) and limit_snapshots, together with the collaborators they      *)
(* talk to: the source host (hassio), the local backup directory and the   *)
(* remote store (dbx).  Every call to a collaborator is one step and may   *)
(* raise.                                                                   *)
(***************************************************************************)
EXTENDS Integers, Sequences, FiniteSets, TLC

(***************************************************************************)
(* Bounds of the model                                                      *)
(***************************************************************************)
\* Largest number of snapshots the source host holds.
MaxSnapshots == 3

\* Largest number of whole chunks in a file handed to upload_file.
MaxChunks == 3

(***************************************************************************)
(* Program constants                                                        *)
(***************************************************************************)
CHUNK_SIZE == 4 * 1024 * 1024

RETRY_LIMIT == 4

BACKUP_DIR == "/backup/"

None == "None"

MiB == 1024 * 1024

(***************************************************************************)
(* Snapshots, paths, files                                                  *)
(***************************************************************************)
Slugs == 1..MaxSnapshots

Dates == 1..MaxSnapshots

Snapshot(s, d) == [slug |-> s, date |-> d]

local_path(snap) == <<BACKUP_DIR, snap.slug, ".tar">>

dropbox_path(dir, snap) == <<dir, snap.slug, ".tar">>

DropboxDir == "dropbox_dir"

LocalPaths == {local_path(Snapshot(s, 1)) : s \in Slugs}

RemotePaths == {dropbox_path(DropboxDir, Snapshot(s, 1)) : s \in Slugs}

\* A local file: absent, or present with a size, a content and a permission.
Missing == [kind |-> "missing"]

File(sz, data, rd) == [kind |-> "file", size |-> sz, data |-> data, readable |-> rd]

NoObject == [kind |-> "none"]

RemoteObject(h) == [kind |-> "object", content_hash |-> h]

Min(a, b) == IF a <= b THEN a ELSE b

(***************************************************************************)
(* compute_dropbox_hash: the digest of the concatenated digests of the      *)
(* file's consecutive CHUNK_SIZE blocks.  A digest is modelled as an        *)
(* injective tag around what was digested; a block of a file is identified *)
(* by the file's content, the block's offset and its length.               *)
(***************************************************************************)
sha256(x) == <<"sha256", x>>

\* The short block at the end of the file left out.
WholeBlocks(sz) == sz \div CHUNK_SIZE

\* lines 121-125: the reads that return a chunk, the last one possibly short.
NumBlocks(sz) == (sz + CHUNK_SIZE - 1) \div CHUNK_SIZE

Block(file, i) ==
    <<file.data, (i - 1) * CHUNK_SIZE, Min(CHUNK_SIZE, file.size - (i - 1) * CHUNK_SIZE)>>

compute_dropbox_hash(file) ==
    sha256([i \in 1..NumBlocks(file.size) |-> sha256(Block(file, i))])

(***************************************************************************)
(* Sorting as list.sort(key=date) does it (stable), and list.reverse.      *)
(***************************************************************************)
\* The place of s[i] after a stable sort on the date: behind every element with a
\* smaller date and behind the earlier elements with the same date.
RankByDate(s, i) ==
    Cardinality({j \in 1..Len(s) : \/ s[j].date < s[i].date
                                    \/ (s[j].date = s[i].date /\ j < i)}) + 1

SortByDate(s) ==
    [p \in 1..Len(s) |-> s[CHOOSE i \in 1..Len(s) : RankByDate(s, i) = p]]

Reverse(s) == [i \in 1..Len(s) |-> s[Len(s) + 1 - i]]

SortNewestFirst(s) == Reverse(SortByDate(s))

\* config.get("keep"): None when the key is unset, otherwise its integer.  The value
\* is held as a sequence, empty for None.
KeepNone == <<>>

KeepOf(n) == <<n>>

\* A test against None alone: zero counts as a limit.
NotNone(k) == k # KeepNone

\* Python truthiness of config.get("keep").
Truthy(k) == k # KeepNone /\ k[1] # 0

VARIABLES
    keep,        \* config.get("keep")
    host,        \* the snapshots the source host lists, in the host's order
    files,       \* the local backup directory: path -> file
    remote,      \* the remote store: path -> object
    healthy,     \* the host and the store no longer fail a call that can succeed
    stack,       \* the call stack, innermost call last
    pc,          \* the position in the innermost call
    raisedFrom,  \* the function an exception last left, None when none did
    snapshots,   \* main: the list list_snapshots returned
    batch,       \* backup: its (possibly sliced) snapshots
    idx,         \* backup: position of the loop in batch
    snapshot,    \* process_snapshot: its argument
    psResult,    \* process_snapshot: how it ended
    metadata,    \* file_exists: what files_get_metadata returned
    local_hash,  \* file_exists: what compute_dropbox_hash returned
    file_path,   \* upload_file: its source path
    dest_path,   \* upload_file: its destination path
    attempt,     \* retry wrapper: number of the running attempt
    file_size,   \* upload_file: os.path.getsize(file_path)
    tell,        \* upload_file: f.tell()
    cursor,      \* upload_file: the UploadSessionCursor
    handles,     \* upload_file: the handles its attempts opened that are still open
    progress,    \* upload_file: the percentages the running attempt has logged
    expired,     \* limit_snapshots: expired_snapshots
    eidx,        \* limit_snapshots: position of the loop in expired
    stop,        \* main: what the sleeper last returned
    account,     \* main: how users_get_current_account ended
    calls,       \* the store calls of the running upload attempt
    ops,         \* the calls of the running process_snapshot or limit_snapshots
    processed    \* the slugs process_snapshot was called on by the running backup

vars == <<keep, host, files, remote, stack, pc, raisedFrom, snapshots, batch, idx,
          snapshot, psResult, file_path, dest_path, attempt, file_size, tell, cursor,
          expired, eidx, stop, metadata, calls, ops, processed, account, handles, progress,
          local_hash, healthy>>

envVars == <<keep, host, files, remote, healthy>>

mainVars == <<snapshots, stop, account>>

backupVars == <<batch, idx, processed>>

processVars == <<snapshot, psResult, metadata, local_hash>>

uploadVars == <<file_path, dest_path, attempt, file_size, tell, cursor, calls, handles,
                progress>>

limitVars == <<expired, eidx>>

NoCursor == [session_id |-> 0, offset |-> 0]

NoSnapshot == Snapshot(0, 0)

NoHash == <<>>

\* The locals of a call hold nothing once the call is over.
ResetUpload ==
    /\ file_path' = None
    /\ dest_path' = None
    /\ attempt' = 0
    /\ file_size' = 0
    /\ tell' = 0
    /\ cursor' = NoCursor
    /\ calls' = <<>>
    /\ handles' = 0
    /\ progress' = <<>>

ResetProcess ==
    /\ snapshot' = NoSnapshot
    /\ psResult' = None
    /\ metadata' = NoObject
    /\ local_hash' = NoHash

ResetBackup ==
    /\ batch' = <<>>
    /\ idx' = 0
    /\ processed' = <<>>

ResetLimit ==
    /\ expired' = <<>>
    /\ eidx' = 0

Top(st) == st[Len(st)]

Pop(st) == SubSeq(st, 1, Len(st) - 1)

(***************************************************************************)
(* Calls, returns and exceptions                                            *)
(***************************************************************************)
Call(op, bytes, sid, off, path, ok) ==
    [op |-> op, bytes |-> bytes, session_id |-> sid, offset |-> off, path |-> path,
     ok |-> ok]

Op(op, slug, ok) == [op |-> op, slug |-> slug, ok |-> ok]

\* A call to the host or the store returns (ok) only when it can; it raises when it
\* cannot, and, while the collaborators are not healthy, also when it could return.
Outcome(ok, possible) == IF ok THEN possible ELSE (~possible \/ ~healthy)

\* Where the caller goes on when the callee returns.
AfterReturn(callee, st) ==
    IF st = <<>> THEN "returned"
    ELSE CASE callee = "upload_file" -> "ps_done"
           [] callee = "process_snapshot" -> "backup_loop"
           [] callee = "backup" -> "main_limit"
           [] callee = "limit_snapshots" -> "main_sleep"

\* An exception leaves the innermost call.
RaiseOut ==
    /\ stack' = Pop(stack)
    /\ raisedFrom' = Top(stack)
    /\ pc' = IF Pop(stack) = <<>> THEN "raised" ELSE "propagate"

\* The innermost call returns.
ReturnOut ==
    /\ stack' = Pop(stack)
    /\ raisedFrom' = raisedFrom
    /\ pc' = AfterReturn(Top(stack), Pop(stack))

In(fn, at) == stack # <<>> /\ Top(stack) = fn /\ pc = at

(***************************************************************************)
(* upload_file, lines 86-114, under @retrace.retry(limit=4)                *)
(***************************************************************************)
\* A file of exactly one chunk taken for a chunked one.
IsSingleShotStrict(size) == size < CHUNK_SIZE

\* line 91
IsSingleShot(size) == size <= CHUNK_SIZE

\* A rest of exactly one chunk taken for more than one.
IsLastChunkStrict(size, pos) == (size - pos) < CHUNK_SIZE

\* line 107
IsLastChunk(size, pos) == (size - pos) <= CHUNK_SIZE

\* f.read(n) at position pos of a file of the given size: the bytes it returns.
Read(size, pos, n) == IF size - pos <= 0 THEN 0 ELSE Min(n, size - pos)

\* One attempt more than the limit.
RetryExhaustedLate(n) == n > RETRY_LIMIT

\* The retry wrapper gives up once the limit of attempts is used.
RetryExhausted(n) == n >= RETRY_LIMIT

\* What the store holds at dest_path after a commit of `sent` bytes of the file.
Committed(file, sent) == RemoteObject(compute_dropbox_hash([file EXCEPT !.size = sent]))

\* round(x) of Python for x = num / den: to the nearest integer, a half to the even one.
Round(num, den) ==
    LET q == num \div den
        r == num % den
    IN  IF 2 * r > den THEN q + 1
        ELSE IF 2 * r < den THEN q
        ELSE IF q % 2 = 0 THEN q ELSE q + 1

\* line 101
Percentage(pos, size) == Round(pos * 100, size)

\* lines 103-105: the percentage is logged when nothing or 0 was logged before, or when
\* it is more than 5 points above the last one logged.
LogProgress(logged, percentage) ==
    IF logged = <<>> \/ logged[Len(logged)] = 0 \/ percentage > logged[Len(logged)] + 5
    THEN Append(logged, percentage)
    ELSE logged

\* line 89: f = open(file_path, "rb") is never closed by upload_file.  When the call
\* is over, the runtime has finalised the file objects its attempts left behind, or
\* has not yet.
Reclaimed(h) == {0, h}

\* An attempt raised: the wrapper starts the next attempt, or lets the error out.
AttemptFailed ==
    IF RetryExhausted(attempt)
    THEN /\ RaiseOut
         /\ handles' \in Reclaimed(handles)
         /\ UNCHANGED attempt
    ELSE /\ attempt' = attempt + 1
         /\ pc' = "uf_open"
         /\ UNCHANGED <<stack, raisedFrom, handles>>

\* A retry that resumes: the position and the cursor of the failed attempt are kept.
UploadOpenResume ==
    /\ In("upload_file", "uf_open")
    /\ calls' = <<>>
    /\ progress' = <<>>
    /\ UNCHANGED <<tell, cursor>>
    /\ LET f == files[file_path] IN
       IF f.kind = "missing" \/ ~f.readable
       THEN /\ AttemptFailed
            /\ file_size' = 0
       ELSE /\ handles' = handles + 1
            /\ file_size' = f.size
            /\ pc' = IF IsSingleShot(f.size) THEN "uf_upload"
                    ELSE IF cursor = NoCursor THEN "uf_start" ELSE "uf_loop"
            /\ UNCHANGED <<stack, raisedFrom, attempt>>
    /\ UNCHANGED <<envVars, mainVars, backupVars, processVars, limitVars,
                   file_path, dest_path, ops>>

\* lines 89-91: open the file, read its size, choose the path.
UploadOpen ==
    /\ In("upload_file", "uf_open")
    /\ calls' = <<>>
    /\ progress' = <<>>
    /\ tell' = 0
    /\ cursor' = NoCursor
    /\ LET f == files[file_path] IN
       IF f.kind = "missing" \/ ~f.readable
       THEN /\ AttemptFailed
            /\ file_size' = 0
       ELSE /\ handles' = handles + 1
            /\ file_size' = f.size
            /\ pc' = IF IsSingleShot(f.size) THEN "uf_upload" ELSE "uf_start"
            /\ UNCHANGED <<stack, raisedFrom, attempt>>
    /\ UNCHANGED <<envVars, mainVars, backupVars, processVars, limitVars,
                   file_path, dest_path, ops>>

\* line 92: dbx.files_upload(f, dest_path), then return.
UploadWhole ==
    /\ In("upload_file", "uf_upload")
    /\ \E ok \in BOOLEAN :
         /\ Outcome(ok, TRUE)
         /\ calls' = Append(calls, Call("files_upload", Read(file_size, tell, file_size),
                                        0, 0, dest_path, ok))
         /\ IF ok
            THEN /\ tell' = tell + Read(file_size, tell, file_size)
                 /\ remote' = [remote EXCEPT ![dest_path] =
                                   Committed(files[file_path], tell')]
                 /\ ReturnOut
                 /\ handles' \in Reclaimed(handles)
                 /\ UNCHANGED attempt
            ELSE /\ AttemptFailed
                 /\ UNCHANGED <<tell, remote>>
    /\ UNCHANGED <<keep, healthy, host, files, mainVars, backupVars, processVars, limitVars,
                   file_path, dest_path, file_size, cursor, ops, progress>>

\* lines 94-99: dbx.files_upload_session_start(f.read(CHUNK_SIZE)) and the cursor.
UploadSessionStart ==
    /\ In("upload_file", "uf_start")
    /\ \E ok \in BOOLEAN :
         /\ Outcome(ok, TRUE)
         /\ calls' = Append(calls, Call("files_upload_session_start",
                                        Read(file_size, tell, CHUNK_SIZE), 0, 0, None, ok))
         /\ tell' = tell + Read(file_size, tell, CHUNK_SIZE)
         /\ IF ok
            THEN /\ cursor' = [session_id |-> attempt, offset |-> tell']
                 /\ pc' = "uf_loop"
                 /\ UNCHANGED <<stack, raisedFrom, attempt, handles>>
            ELSE /\ AttemptFailed
                 /\ UNCHANGED cursor
    /\ UNCHANGED <<envVars, mainVars, backupVars, processVars, limitVars,
                   file_path, dest_path, file_size, ops, progress>>

\* lines 100-108: the rest fits in one chunk: files_upload_session_finish.
UploadSessionFinish ==
    /\ In("upload_file", "uf_loop")
    /\ tell < file_size
    /\ progress' = LogProgress(progress, Percentage(tell, file_size))
    /\ IsLastChunk(file_size, tell)
    /\ \E ok \in BOOLEAN :
         /\ Outcome(ok, TRUE)
         /\ calls' = Append(calls, Call("files_upload_session_finish",
                                        Read(file_size, tell, CHUNK_SIZE),
                                        cursor.session_id, cursor.offset, dest_path, ok))
         /\ tell' = tell + Read(file_size, tell, CHUNK_SIZE)
         /\ IF ok
            THEN /\ remote' = [remote EXCEPT ![dest_path] =
                                   Committed(files[file_path], tell')]
                 /\ UNCHANGED <<stack, pc, raisedFrom, attempt, handles>>
            ELSE /\ AttemptFailed
                 /\ UNCHANGED remote
    /\ UNCHANGED <<keep, healthy, host, files, mainVars, backupVars, processVars, limitVars,
                   file_path, dest_path, file_size, cursor, ops>>

\* The append without line 113: the cursor keeps its offset.
UploadSessionAppendStale ==
    /\ In("upload_file", "uf_loop")
    /\ tell < file_size
    /\ progress' = LogProgress(progress, Percentage(tell, file_size))
    /\ ~IsLastChunk(file_size, tell)
    /\ \E ok \in BOOLEAN :
         /\ Outcome(ok, TRUE)
         /\ calls' = Append(calls, Call("files_upload_session_append",
                                        Read(file_size, tell, CHUNK_SIZE),
                                        cursor.session_id, cursor.offset, None, ok))
         /\ tell' = tell + Read(file_size, tell, CHUNK_SIZE)
         /\ IF ok
            THEN /\ cursor' = cursor
                 /\ UNCHANGED <<stack, pc, raisedFrom, attempt, handles>>
            ELSE /\ AttemptFailed
                 /\ UNCHANGED cursor
    /\ UNCHANGED <<envVars, mainVars, backupVars, processVars, limitVars,
                   file_path, dest_path, file_size, ops>>

\* lines 100-105, 109-113: more than one chunk is left: files_upload_session_append.
UploadSessionAppend ==
    /\ In("upload_file", "uf_loop")
    /\ tell < file_size
    /\ progress' = LogProgress(progress, Percentage(tell, file_size))
    /\ ~IsLastChunk(file_size, tell)
    /\ \E ok \in BOOLEAN :
         /\ Outcome(ok, TRUE)
         /\ calls' = Append(calls, Call("files_upload_session_append",
                                        Read(file_size, tell, CHUNK_SIZE),
                                        cursor.session_id, cursor.offset, None, ok))
         /\ tell' = tell + Read(file_size, tell, CHUNK_SIZE)
         /\ IF ok
            THEN /\ cursor' = [cursor EXCEPT !.offset = tell']
                 /\ UNCHANGED <<stack, pc, raisedFrom, attempt, handles>>
            ELSE /\ AttemptFailed
                 /\ UNCHANGED cursor
    /\ UNCHANGED <<envVars, mainVars, backupVars, processVars, limitVars,
                   file_path, dest_path, file_size, ops>>

\* lines 100, 114: the loop ends, "100 %" is logged and upload_file returns.
UploadDone ==
    /\ In("upload_file", "uf_loop")
    /\ ~(tell < file_size)
    /\ ReturnOut
    /\ handles' \in Reclaimed(handles)
    /\ progress' = Append(progress, 100)
    /\ UNCHANGED <<envVars, mainVars, backupVars, processVars, limitVars, ops,
                   file_path, dest_path, attempt, file_size, tell, cursor, calls>>

UploadStep ==
    \/ UploadOpen
    \/ UploadWhole
    \/ UploadSessionStart
    \/ UploadSessionFinish
    \/ UploadSessionAppend
    \/ UploadDone

(***************************************************************************)
(* process_snapshot, lines 157-172, with file_exists, lines 129-154        *)
(***************************************************************************)
\* The comparison the wrong way round.
HashDiffers(lhash, dhash) == lhash # dhash

\* line 140
HashMatches(lhash, dhash) == lhash = dhash

\* line 170: process_snapshot calls upload_file(dbx, path, target).
CallUpload ==
    /\ stack' = Append(stack, "upload_file")
    /\ pc' = "uf_open"
    /\ file_path' = local_path(snapshot)
    /\ dest_path' = dropbox_path(DropboxDir, snapshot)
    /\ attempt' = 1
    /\ file_size' = 0
    /\ tell' = 0
    /\ cursor' = NoCursor
    /\ calls' = <<>>
    /\ handles' = 0
    /\ progress' = <<>>

\* lines 158-165: the path, the date and os.path.getsize(path), all before the try.
ProcessBegin ==
    /\ In("process_snapshot", "ps_begin")
    /\ ops' = <<>>
    /\ calls' = <<>>
    /\ psResult' = None
    /\ metadata' = NoObject
    /\ local_hash' = NoHash
    /\ IF files[local_path(snapshot)].kind = "missing"
       THEN RaiseOut
       ELSE /\ pc' = "fe_metadata"
            /\ UNCHANGED <<stack, raisedFrom>>
    /\ UNCHANGED <<envVars, mainVars, backupVars, limitVars, snapshot,
                   file_path, dest_path, attempt, file_size, tell, cursor, handles,
                   progress>>

\* lines 130-134: files_get_metadata raises (no object, or any error): file_exists
\* returns False and process_snapshot goes on to upload_file.
FileExistsNoMetadata ==
    /\ In("process_snapshot", "fe_metadata")
    /\ Outcome(FALSE, remote[dropbox_path(DropboxDir, snapshot)].kind = "object")
    /\ ops' = ops \o <<Op("files_get_metadata", snapshot.slug, FALSE),
                       Op("upload_file", snapshot.slug, TRUE)>>
    /\ CallUpload
    /\ UNCHANGED <<envVars, mainVars, backupVars, limitVars, processVars, raisedFrom>>

\* lines 131, 136-141: files_get_metadata returns the object's metadata and the local
\* hash is computed and compared.
FileExistsCompare ==
    /\ In("process_snapshot", "fe_metadata")
    /\ remote[dropbox_path(DropboxDir, snapshot)].kind = "object"
    /\ ops' = Append(ops, Op("files_get_metadata", snapshot.slug, TRUE))
    /\ metadata' = remote[dropbox_path(DropboxDir, snapshot)]
    /\ LET f == files[local_path(snapshot)]
           dropbox_hash == metadata'.content_hash
       IN  IF f.kind = "missing" \/ ~f.readable
           THEN /\ pc' = "ps_done"
                /\ psResult' = "failed"
                /\ UNCHANGED local_hash
           ELSE /\ local_hash' = compute_dropbox_hash(f)
                /\ IF HashMatches(local_hash', dropbox_hash)
                   THEN /\ pc' = "ps_done"
                        /\ psResult' = "skipped"
                   ELSE /\ pc' = "fe_delete"
                        /\ UNCHANGED psResult
    /\ UNCHANGED <<envVars, mainVars, backupVars, limitVars, uploadVars, snapshot,
                   stack, raisedFrom>>

\* A failing files_delete swallowed inside file_exists: the upload follows all the same.
FileExistsDeleteLenient ==
    /\ In("process_snapshot", "fe_delete")
    /\ \E ok \in BOOLEAN :
         /\ Outcome(ok, remote[dropbox_path(DropboxDir, snapshot)].kind = "object")
         /\ remote' = IF ok
                      THEN [remote EXCEPT ![dropbox_path(DropboxDir, snapshot)] = NoObject]
                      ELSE remote
         /\ ops' = ops \o <<Op("files_delete", snapshot.slug, ok),
                            Op("upload_file", snapshot.slug, TRUE)>>
         /\ CallUpload
    /\ UNCHANGED <<keep, healthy, host, files, mainVars, backupVars, limitVars, processVars,
                   raisedFrom>>

\* lines 153-154, 170: files_delete of the conflicting object, then upload_file; a
\* failing delete is caught at line 171.
FileExistsDelete ==
    /\ In("process_snapshot", "fe_delete")
    /\ \E ok \in BOOLEAN :
         /\ Outcome(ok, remote[dropbox_path(DropboxDir, snapshot)].kind = "object")
         /\ IF ok
            THEN /\ remote' = [remote EXCEPT ![dropbox_path(DropboxDir, snapshot)] = NoObject]
                 /\ ops' = ops \o <<Op("files_delete", snapshot.slug, TRUE),
                                    Op("upload_file", snapshot.slug, TRUE)>>
                 /\ CallUpload
                 /\ UNCHANGED psResult
            ELSE /\ ops' = Append(ops, Op("files_delete", snapshot.slug, FALSE))
                 /\ pc' = "ps_done"
                 /\ psResult' = "failed"
                 /\ UNCHANGED <<remote, stack, uploadVars>>
    /\ UNCHANGED <<keep, healthy, host, files, mainVars, backupVars, limitVars, snapshot, metadata,
                   local_hash, raisedFrom>>

\* lines 171-172: the error upload_file let out is logged and swallowed.
ProcessExcept ==
    /\ In("process_snapshot", "propagate")
    /\ pc' = "ps_done"
    /\ psResult' = "failed"
    /\ raisedFrom' = None
    /\ UNCHANGED <<envVars, mainVars, backupVars, limitVars, uploadVars, snapshot,
                   metadata, local_hash, stack, ops>>

\* process_snapshot returns.
ProcessReturn ==
    /\ In("process_snapshot", "ps_done")
    /\ ReturnOut
    /\ ResetProcess
    /\ ResetUpload
    /\ ops' = <<>>
    /\ UNCHANGED <<envVars, mainVars, backupVars, limitVars>>

ProcessStep ==
    \/ ProcessBegin
    \/ FileExistsNoMetadata
    \/ FileExistsCompare
    \/ FileExistsDelete
    \/ ProcessExcept
    \/ ProcessReturn

(***************************************************************************)
(* backup, lines 175-192                                                    *)
(***************************************************************************)
\* The slice left out: every snapshot of the listing is processed.
BackupNoSlice(snaps, k) == snaps

\* lines 186-188
BackupSlice(snaps, k) ==
    IF Truthy(k) /\ Len(snaps) > k[1] THEN SubSeq(snaps, 1, k[1]) ELSE snaps

\* lines 182-188: nothing to do on an empty list; otherwise the slice.
BackupBegin ==
    /\ In("backup", "backup_begin")
    /\ processed' = <<>>
    /\ IF batch = <<>>
       THEN /\ ReturnOut
            /\ UNCHANGED <<batch, idx>>
       ELSE /\ batch' = BackupSlice(batch, keep)
            /\ idx' = 1
            /\ pc' = "backup_loop"
            /\ UNCHANGED <<stack, raisedFrom>>
    /\ UNCHANGED <<envVars, mainVars, limitVars, processVars, uploadVars, ops>>

\* lines 190-192: the next snapshot of the loop goes to process_snapshot.
BackupNext ==
    /\ In("backup", "backup_loop")
    /\ idx <= Len(batch)
    /\ snapshot' = batch[idx]
    /\ idx' = idx + 1
    /\ processed' = Append(processed, batch[idx].slug)
    /\ stack' = Append(stack, "process_snapshot")
    /\ pc' = "ps_begin"
    /\ UNCHANGED <<envVars, mainVars, limitVars, uploadVars, batch, psResult, metadata,
                   local_hash, raisedFrom, ops>>

\* line 190: the loop is over, backup returns.
BackupEnd ==
    /\ In("backup", "backup_loop")
    /\ idx > Len(batch)
    /\ ReturnOut
    /\ ResetBackup
    /\ UNCHANGED <<envVars, mainVars, limitVars, processVars, uploadVars, ops>>

\* backup has no handler: an error of process_snapshot leaves backup too.
BackupPropagate ==
    /\ In("backup", "propagate")
    /\ RaiseOut
    /\ ResetProcess
    /\ ResetUpload
    /\ ops' = <<>>
    /\ UNCHANGED <<envVars, mainVars, backupVars, limitVars>>

BackupStep ==
    \/ BackupBegin
    \/ BackupNext
    \/ BackupEnd
    \/ BackupPropagate

(***************************************************************************)
(* limit_snapshots, lines 195-221                                           *)
(***************************************************************************)
\* lines 200, 204: is there anything to remove?
LimitApplies(snaps, k) == Truthy(k) /\ ~(Len(snaps) <= k[1])

\* The sort without the reverse: the newest are taken for the expired ones.
ExpiredOfOldestFirst(snaps, k) == SubSeq(SortByDate(snaps), k[1] + 1, Len(snaps))

\* lines 210-213
ExpiredSnapshots(snaps, k) == SubSeq(SortNewestFirst(snaps), k[1] + 1, Len(snaps))

HostSlugs == {host[i].slug : i \in 1..Len(host)}

RECURSIVE Without(_, _)
Without(s, slug) ==
    IF s = <<>> THEN <<>>
    ELSE IF s[1].slug = slug THEN Without(Tail(s), slug)
    ELSE <<s[1]>> \o Without(Tail(s), slug)

\* lines 197-215: the two early returns, the sort in place and the expired tail.
LimitBegin ==
    /\ In("limit_snapshots", "ls_begin")
    /\ ops' = <<>>
    /\ IF LimitApplies(snapshots, keep)
       THEN /\ snapshots' = SortNewestFirst(snapshots)
            /\ expired' = ExpiredSnapshots(snapshots, keep)
            /\ eidx' = 1
            /\ pc' = "ls_remove"
            /\ UNCHANGED <<stack, raisedFrom>>
       ELSE /\ ReturnOut
            /\ UNCHANGED <<snapshots, expired, eidx>>
    /\ UNCHANGED <<envVars, backupVars, processVars, uploadVars, stop, account>>

\* lines 217-219: hassio_post("snapshots/<slug>/remove") for the next expired one.
LimitRemove ==
    /\ In("limit_snapshots", "ls_remove")
    /\ eidx <= Len(expired)
    /\ \E ok \in BOOLEAN :
         /\ Outcome(ok, expired[eidx].slug \in HostSlugs)
         /\ ops' = Append(ops, Op("remove", expired[eidx].slug, ok))
         /\ IF ok
            THEN /\ host' = Without(host, expired[eidx].slug)
                 /\ files' = [files EXCEPT ![local_path(expired[eidx])] = Missing]
                 /\ pc' = "ls_delete"
                 /\ UNCHANGED <<stack, raisedFrom>>
            ELSE /\ RaiseOut
                 /\ UNCHANGED <<host, files>>
    /\ UNCHANGED <<keep, healthy, remote, mainVars, backupVars, processVars, uploadVars, limitVars>>

\* lines 220-221: dbx.files_delete of its remote path.
LimitDelete ==
    /\ In("limit_snapshots", "ls_delete")
    /\ \E ok \in BOOLEAN :
         /\ Outcome(ok, remote[dropbox_path(DropboxDir, expired[eidx])].kind = "object")
         /\ ops' = Append(ops, Op("files_delete", expired[eidx].slug, ok))
         /\ IF ok
            THEN /\ remote' = [remote EXCEPT ![dropbox_path(DropboxDir, expired[eidx])] =
                                   NoObject]
                 /\ eidx' = eidx + 1
                 /\ pc' = "ls_remove"
                 /\ UNCHANGED <<stack, raisedFrom>>
            ELSE /\ RaiseOut
                 /\ UNCHANGED <<remote, eidx>>
    /\ UNCHANGED <<keep, healthy, host, files, mainVars, backupVars, processVars, uploadVars, expired>>

\* line 217: the loop is over, limit_snapshots returns.
LimitEnd ==
    /\ In("limit_snapshots", "ls_remove")
    /\ eidx > Len(expired)
    /\ ReturnOut
    /\ ResetLimit
    /\ ops' = <<>>
    /\ UNCHANGED <<envVars, mainVars, backupVars, processVars, uploadVars>>

LimitStep ==
    \/ LimitBegin
    \/ LimitRemove
    \/ LimitDelete
    \/ LimitEnd

(***************************************************************************)
(* main, lines 224-252                                                      *)
(***************************************************************************)
\* An AuthError taken for a passing check: main enters its loop.
MainCheckLenient ==
    /\ In("main", "main_check")
    /\ \E r \in {"ok", "AuthError", "Exception"} :
         /\ account' = r
         /\ CASE r = "ok" -> /\ pc' = "main_list"
                             /\ UNCHANGED <<stack, raisedFrom>>
              [] r = "AuthError" -> /\ pc' = "main_list"
                                    /\ UNCHANGED <<stack, raisedFrom>>
              [] r = "Exception" -> RaiseOut
    /\ UNCHANGED <<envVars, snapshots, stop, backupVars, limitVars, processVars, uploadVars,
                   ops>>

\* lines 229-234: the account check; AuthError ends main, any other error leaves it.
MainCheck ==
    /\ In("main", "main_check")
    /\ \E r \in {"ok", "AuthError", "Exception"} :
         /\ account' = r
         /\ CASE r = "ok" -> /\ pc' = "main_list"
                             /\ UNCHANGED <<stack, raisedFrom>>
              [] r = "AuthError" -> ReturnOut
              [] r = "Exception" -> RaiseOut
    /\ UNCHANGED <<envVars, snapshots, stop, backupVars, limitVars, processVars, uploadVars,
                   ops>>

\* lines 238-241: list_snapshots (sorted newest first), then the call of backup; a
\* failing listing is caught at line 246.
MainList ==
    /\ In("main", "main_list")
    /\ \E ok \in BOOLEAN :
         IF ok
         THEN /\ snapshots' = SortNewestFirst(host)
              /\ batch' = snapshots'
              /\ stack' = Append(stack, "backup")
              /\ pc' = "backup_begin"
         ELSE /\ Outcome(FALSE, TRUE)
              /\ pc' = "main_sleep"
              /\ UNCHANGED <<snapshots, batch, stack>>
    /\ UNCHANGED <<envVars, limitVars, processVars, uploadVars, idx, processed, stop,
                   account, raisedFrom, ops>>

\* lines 242-244: backup returned, limit_snapshots is called on the same list.
MainLimit ==
    /\ In("main", "main_limit")
    /\ stack' = Append(stack, "limit_snapshots")
    /\ pc' = "ls_begin"
    /\ UNCHANGED <<envVars, mainVars, backupVars, limitVars, processVars, uploadVars,
                   raisedFrom, ops>>

\* The handler going straight on to the next cycle, without the sleep.
MainExceptNoSleep ==
    /\ In("main", "propagate")
    /\ pc' = "main_list"
    /\ raisedFrom' = None
    /\ ResetBackup
    /\ ResetLimit
    /\ ops' = <<>>
    /\ UNCHANGED <<envVars, mainVars, processVars, uploadVars, stack>>

\* lines 246-247: an error of backup or limit_snapshots is logged; the cycle is over.
MainExcept ==
    /\ In("main", "propagate")
    /\ pc' = "main_sleep"
    /\ raisedFrom' = None
    /\ ResetBackup
    /\ ResetLimit
    /\ ops' = <<>>
    /\ UNCHANGED <<envVars, mainVars, processVars, uploadVars, stack>>

\* lines 249-252: the sleeper is called; a truthy result ends main.  By the end of
\* the sleep the collaborators may have recovered for good.
MainSleep ==
    /\ In("main", "main_sleep")
    /\ healthy' \in {healthy, TRUE}
    /\ \E r \in BOOLEAN :
         /\ stop' = r
         /\ IF r
            THEN ReturnOut
            ELSE /\ pc' = "main_list"
                 /\ UNCHANGED <<stack, raisedFrom>>
    /\ snapshots' = <<>>
    /\ UNCHANGED <<keep, host, files, remote, backupVars, limitVars, processVars,
                   uploadVars, ops, account>>

MainStep ==
    \/ MainCheck
    \/ MainList
    \/ MainLimit
    \/ MainExcept
    \/ MainSleep

(***************************************************************************)
(* Initial states.  Each specification starts one function of the program  *)
(* on inputs drawn from bounded sets; Spec starts main.                    *)
(***************************************************************************)
UploadSizes ==
    {k * CHUNK_SIZE + r : k \in 0..MaxChunks, r \in {0, 1, 2 * MiB, CHUNK_SIZE - 1}}

Unreadable == File(1, 1, FALSE)

UploadFiles == {File(sz, 1, TRUE) : sz \in UploadSizes} \cup {Unreadable, Missing}

TheSnapshot == Snapshot(1, 1)

\* The values of config.get("keep"): unset, zero, or a positive count.
Keeps == {KeepNone} \cup {KeepOf(n) : n \in 0..(MaxSnapshots - 1)}

\* The listings of the source host: slug i at position i, with any dates.
Listings ==
    UNION {[1..n -> Dates] : n \in 0..MaxSnapshots}

Listing(ds) == [i \in 1..Len(ds) |-> Snapshot(i, ds[i])]

\* An object another writer left at a path: its content is not the local one.
StaleObject == RemoteObject(compute_dropbox_hash(File(1, 2, TRUE)))

EmptyStore == [p \in RemotePaths |-> NoObject]

StartIn(fn, at) ==
    /\ stack = <<fn>>
    /\ pc = at
    /\ raisedFrom = None

MainIdle ==
    /\ snapshots = <<>>
    /\ stop = FALSE
    /\ account = "unchecked"

BackupIdle ==
    /\ batch = <<>>
    /\ idx = 0
    /\ processed = <<>>

ProcessIdle ==
    /\ snapshot = NoSnapshot
    /\ psResult = None
    /\ metadata = NoObject
    /\ local_hash = NoHash
    /\ ops = <<>>

UploadIdle ==
    /\ file_path = None
    /\ dest_path = None
    /\ attempt = 0
    /\ file_size = 0
    /\ tell = 0
    /\ cursor = NoCursor
    /\ calls = <<>>
    /\ handles = 0
    /\ progress = <<>>

LimitIdle ==
    /\ expired = <<>>
    /\ eidx = 0

\* upload_file(dbx, file_path, dest_path) on one file.
InitUpload ==
    /\ keep = KeepNone
    /\ healthy = FALSE
    /\ host = <<>>
    /\ \E f \in UploadFiles : files = [p \in LocalPaths |-> f]
    /\ remote = EmptyStore
    /\ StartIn("upload_file", "uf_open")
    /\ MainIdle /\ BackupIdle /\ ProcessIdle /\ LimitIdle
    /\ file_path = local_path(TheSnapshot)
    /\ dest_path = dropbox_path(DropboxDir, TheSnapshot)
    /\ attempt = 1
    /\ file_size = 0
    /\ tell = 0
    /\ cursor = NoCursor
    /\ calls = <<>>
    /\ handles = 0
    /\ progress = <<>>

NextUpload == UploadStep

SpecUpload == InitUpload /\ [][NextUpload]_vars

\* process_snapshot(dropbox_dir, dbx, snapshot) on one snapshot: its file is any of
\* UploadFiles, the store holds nothing, the same content or another content.
InitProcess ==
    /\ keep = KeepNone
    /\ healthy = FALSE
    /\ host = <<TheSnapshot>>
    /\ \E f \in UploadFiles :
         /\ files = [p \in LocalPaths |-> f]
         /\ \E o \in {NoObject, StaleObject} \cup
                     (IF f.kind = "file" THEN {RemoteObject(compute_dropbox_hash(f))} ELSE {}) :
              remote = [p \in RemotePaths |-> o]
    /\ StartIn("process_snapshot", "ps_begin")
    /\ MainIdle /\ BackupIdle /\ UploadIdle /\ LimitIdle
    /\ snapshot = TheSnapshot
    /\ psResult = None
    /\ metadata = NoObject
    /\ local_hash = NoHash
    /\ ops = <<>>

NextProcess == ProcessStep \/ UploadStep

SpecProcess == InitProcess /\ [][NextProcess]_vars

\* limit_snapshots(dbx, config, snapshots) on any listing, in any order, with any keep;
\* each snapshot has or has not been uploaded before.
InitLimit ==
    /\ keep \in Keeps
    /\ healthy = FALSE
    /\ \E ds \in Listings :
         /\ host = Listing(ds)
         /\ snapshots = Listing(ds)
    /\ files = [p \in LocalPaths |-> File(1, 1, TRUE)]
    /\ remote \in [RemotePaths -> {NoObject, RemoteObject(compute_dropbox_hash(File(1, 1, TRUE)))}]
    /\ StartIn("limit_snapshots", "ls_begin")
    /\ stop = FALSE
    /\ account = "unchecked"
    /\ BackupIdle /\ ProcessIdle /\ UploadIdle /\ LimitIdle

NextLimit == LimitStep

SpecLimit == InitLimit /\ [][NextLimit]_vars

\* The local files main starts with: the file of slug s holds s - 1 whole chunks
\* and one byte more; at most one file, of the first two slugs, is missing or
\* unreadable.
MainFile(s) == File((s - 1) * CHUNK_SIZE + 1, 1, TRUE)

MainFiles ==
    {[p \in LocalPaths |-> IF p = local_path(Snapshot(m, 1)) THEN bad
                           ELSE MainFile(p[2])] :
        m \in 0..2, bad \in {Missing, Unreadable}}

\* The listings main starts with: none, or MaxSnapshots snapshots over two dates.
MainListings ==
    {Listing(ds) : ds \in [1..0 -> {1, 2}] \cup [1..MaxSnapshots -> {1, 2}]}

\* The limits main starts with: none, zero, one, and one less than the listing.
MainKeeps == {KeepNone, KeepOf(0), KeepOf(1), KeepOf(MaxSnapshots - 1)}

\* main(config_file, sleeper, DropboxAPI).
Init ==
    /\ keep \in MainKeeps
    /\ healthy = FALSE
    /\ host \in MainListings
    /\ files \in MainFiles
    /\ remote \in {EmptyStore, [p \in RemotePaths |-> StaleObject]}
    /\ StartIn("main", "main_check")
    /\ MainIdle /\ BackupIdle /\ ProcessIdle /\ UploadIdle /\ LimitIdle

Next == MainStep \/ BackupStep \/ ProcessStep \/ UploadStep \/ LimitStep

Spec == Init /\ [][Next]_vars

(***************************************************************************)
(* Properties                                                               *)
(***************************************************************************)
RECURSIVE SumBytes(_)
SumBytes(cs) == IF cs = <<>> THEN 0 ELSE cs[1].bytes + SumBytes(Tail(cs))

OpsOf(cs) == [i \in 1..Len(cs) |-> cs[i].op]

BytesOf(cs) == [i \in 1..Len(cs) |-> cs[i].bytes]

Last(sq) == sq[Len(sq)]

\* upload_file, called on its own, has returned: calls holds its successful attempt.
UploadReturned == stack = <<>> /\ pc = "returned" /\ file_path # None

TheFile == files[local_path(TheSnapshot)]

ThePath == dropbox_path(DropboxDir, TheSnapshot)

\* C1: a successful attempt of upload_file on a file larger than CHUNK_SIZE issues one
\* files_upload_session_start, then only files_upload_session_append calls, then one
\* files_upload_session_finish as its last call; the bytes of these calls sum to the
\* file size; a 10 MiB file gives start 4 MiB, append 4 MiB, finish 2 MiB.
C1_ChunkedSession ==
    (UploadReturned /\ TheFile.size > CHUNK_SIZE) =>
        /\ Len(calls) >= 2
        /\ calls[1].op = "files_upload_session_start"
        /\ Last(calls).op = "files_upload_session_finish"
        /\ \A i \in 2..(Len(calls) - 1) : calls[i].op = "files_upload_session_append"
        /\ \A i \in 1..Len(calls) : calls[i].ok
        /\ SumBytes(calls) = TheFile.size
        /\ Last(calls).path = ThePath
        /\ (TheFile.size = 10 * MiB => BytesOf(calls) = <<4 * MiB, 4 * MiB, 2 * MiB>>)

\* C1 happens: a 10 MiB file went up in three calls.
C1_Witness ==
    /\ UploadReturned
    /\ TheFile.size = 10 * MiB
    /\ OpsOf(calls) = <<"files_upload_session_start", "files_upload_session_append",
                        "files_upload_session_finish">>

\* C2: a successful attempt of upload_file on a file of at most CHUNK_SIZE bytes (zero
\* and exactly CHUNK_SIZE included) issues one files_upload with the whole content to
\* the destination path and no upload-session call.
C2_SingleShot ==
    (UploadReturned /\ TheFile.size <= CHUNK_SIZE) =>
        calls = <<Call("files_upload", TheFile.size, 0, 0, ThePath, TRUE)>>

\* C2 happens: a file of exactly CHUNK_SIZE bytes went up in one files_upload.
C2_Witness ==
    /\ UploadReturned
    /\ TheFile.size = CHUNK_SIZE
    /\ OpsOf(calls) = <<"files_upload">>

\* The step is an attempt of upload_file raising: its open or one of its calls failed.
AttemptRaises ==
    /\ stack # <<>>
    /\ Top(stack) = "upload_file"
    /\ \/ calls' # <<>> /\ ~Last(calls').ok
       \/ pc = "uf_open" /\ (files[file_path].kind = "missing" \/ ~files[file_path].readable)

\* C9: one call of upload_file makes at most 4 attempts: an attempt that raises is
\* followed by the next attempt while fewer than 4 were made, the 4th failure lets the
\* error out to the caller with no 5th attempt, and an attempt that succeeds ends the
\* call without another attempt.
C9_BoundedRetry ==
    [][/\ attempt' <= 4
       /\ (AttemptRaises /\ attempt < 4) =>
              (attempt' = attempt + 1 /\ pc' = "uf_open" /\ stack' = stack)
       /\ (AttemptRaises /\ attempt >= 4) =>
              (attempt' = attempt /\ stack' = Pop(stack) /\ pc' \in {"raised", "propagate"}
               /\ raisedFrom' = "upload_file")
       /\ (stack # <<>> /\ Top(stack) = "upload_file" /\ ~AttemptRaises) =>
              attempt' = attempt
       /\ (stack # <<>> /\ Top(stack) = "upload_file" /\ stack' # stack /\ ~AttemptRaises) =>
              pc' \in {"returned", "ps_done"}
      ]_vars

\* C9 happens: the 4th attempt failed on a store call and the error left upload_file.
C9_Witness ==
    /\ stack = <<>>
    /\ pc = "raised"
    /\ raisedFrom = "upload_file"
    /\ attempt = 4
    /\ calls # <<>>

\* The snapshot process_snapshot is working on, its local file and its remote path.
CurFile == files[local_path(snapshot)]

CurPath == dropbox_path(DropboxDir, snapshot)

MetaOp == Op("files_get_metadata", snapshot.slug, TRUE)

DeleteOp(ok) == Op("files_delete", snapshot.slug, ok)

UploadOp == Op("upload_file", snapshot.slug, TRUE)

\* files_get_metadata returned an object and the local hash was computed.
MetadataCompared ==
    /\ snapshot # NoSnapshot
    /\ metadata.kind = "object"
    /\ CurFile.kind = "file"
    /\ CurFile.readable

MetadataMatches == MetadataCompared /\ metadata.content_hash = compute_dropbox_hash(CurFile)

MetadataDiffers == MetadataCompared /\ metadata.content_hash # compute_dropbox_hash(CurFile)

CountOps(name) == Cardinality({i \in 1..Len(ops) : ops[i].op = name})

\* C3: when files_get_metadata returned an object whose content_hash equals the local
\* hash, process_snapshot issues no files_delete and no upload call: the metadata
\* fetch is its only call, the object stays, and the snapshot ends as skipped.
C3_MatchIsSkipped ==
    MetadataMatches =>
        /\ ops = <<MetaOp>>
        /\ calls = <<>>
        /\ remote[CurPath] = metadata
        /\ Top(stack) = "process_snapshot"
        /\ pc = "ps_done"
        /\ psResult = "skipped"

\* C3 happens: an object with the local hash was found and the snapshot skipped.
C3_Witness ==
    /\ MetadataMatches
    /\ pc = "ps_done"
    /\ CurFile.size > CHUNK_SIZE

OverLimit == keep # KeepNone /\ keep[1] > 0 /\ Len(snapshots) > keep[1]

\* limit_snapshots is past its early returns.
Pruning == pc \in {"ls_remove", "ls_delete"} \/ (pc = "raised" /\ raisedFrom = "limit_snapshots")

\* Its loop is over: it is about to return.
PruningDone == pc = "ls_remove" /\ eidx > Len(expired)

\* It has ended, by returning or by an error.
PruningEnded == PruningDone \/ (pc = "raised" /\ raisedFrom = "limit_snapshots")

SetOf(sq) == {sq[i] : i \in 1..Len(sq)}

SlugsOf(sq) == {sq[i].slug : i \in 1..Len(sq)}

SlugsGiven(name) == {ops[i].slug : i \in {j \in 1..Len(ops) : ops[j].op = name}}

\* The deletion calls limit_snapshots makes for its expired snapshots, in order.
DeletionCalls(ex) ==
    [i \in 1..(2 * Len(ex)) |->
        IF i % 2 = 1 THEN Op("remove", ex[(i + 1) \div 2].slug, TRUE)
        ELSE Op("files_delete", ex[i \div 2].slug, TRUE)]

\* The expired snapshots are the Len(all) - n oldest ones of the listing.
AreTheOldest(ex, all, n) ==
    /\ Len(ex) = Len(all) - n
    /\ SetOf(ex) \subseteq SetOf(all)
    /\ Cardinality(SetOf(ex)) = Len(ex)
    /\ \A e \in SetOf(ex) : \A k \in SetOf(all) \ SetOf(ex) : e.date <= k.date

\* C5 as stated: with keep = N > 0 and M > N snapshots, limit_snapshots ends having
\* requested both deletions for exactly the M-N oldest snapshots.
C5_Original ==
    (OverLimit /\ PruningEnded) =>
        /\ AreTheOldest(expired, snapshots, keep[1])
        /\ SlugsGiven("remove") = SlugsOf(expired)
        /\ SlugsGiven("files_delete") = SlugsOf(expired)
        /\ Len(ops) = 2 * (Len(snapshots) - keep[1])

\* C5, amended: with keep = N > 0 and M > N snapshots, the expired snapshots are the
\* M-N oldest by date; limit_snapshots asks, in turn, for the source-host removal and
\* the remote files_delete of each of them and of no other snapshot; when no call
\* raises it returns having made both calls for exactly the M-N of them, which are then
\* gone from the host and the store; a call that raises ends it at that call.
C5_ExpiredDeleted ==
    (OverLimit /\ Pruning) =>
        /\ AreTheOldest(expired, snapshots, keep[1])
        /\ \A i \in 1..Len(ops) : ops[i].slug \in SlugsOf(expired)
        /\ Len(ops) <= 2 * Len(expired)
        /\ \A i \in 1..Len(ops) :
             /\ ops[i].op = DeletionCalls(expired)[i].op
             /\ ops[i].slug = DeletionCalls(expired)[i].slug
             /\ (i < Len(ops) => ops[i].ok)
        /\ PruningDone =>
              /\ ops = DeletionCalls(expired)
              /\ SlugsOf(host) = SlugsOf(snapshots) \ SlugsOf(expired)
              /\ \A e \in SetOf(expired) : remote[dropbox_path(DropboxDir, e)] = NoObject
        /\ pc = "raised" => (ops # <<>> /\ ~Last(ops).ok)
        /\ pc # "raised" => \A i \in 1..Len(ops) : ops[i].ok

\* C5 happens: of three snapshots with three dates and keep = 2, the oldest alone was
\* removed from the host and deleted from the store.
C5_Witness ==
    /\ PruningDone
    /\ keep = KeepOf(2)
    /\ Len(snapshots) = 3
    /\ Cardinality({snapshots[i].date : i \in 1..3}) = 3
    /\ Len(ops) = 2
    /\ Len(host) = 2
    /\ \A i \in 1..2 : host[i].date > expired[1].date

\* limit_snapshots has nothing to remove: keep is unset or zero, or not exceeded.
NothingToPrune == keep = KeepNone \/ keep[1] = 0 \/ Len(snapshots) <= keep[1]

\* C6: when keep is unset or zero, or the listing holds at most keep snapshots,
\* limit_snapshots makes no deletion call and leaves the host, the files and the store
\* as they are.
C6_NothingToPrune ==
    [][NothingToPrune =>
          /\ host' = host
          /\ files' = files
          /\ remote' = remote
          /\ ops' = <<>>
          /\ pc' = "returned"
      ]_vars

\* C6 happens: limit_snapshots returned at once with keep = 0 and a full listing.
C6_Witness ==
    /\ pc = "returned"
    /\ stack = <<>>
    /\ keep = KeepOf(0)
    /\ Len(snapshots) = MaxSnapshots
    /\ SlugsOf(host) = SlugsOf(snapshots)

\* backup is running (in it, or in a call it made).
InBackup == "backup" \in SetOf(stack)

\* How many snapshots of the listing backup may process.
BackupQuota ==
    IF keep # KeepNone /\ keep[1] # 0 /\ Len(snapshots) > keep[1] THEN keep[1]
    ELSE Len(snapshots)

\* C7: backup processes the snapshots in listing order, one at a time, and only those
\* in the first keep positions when keep is set and exceeded: every call it makes is
\* for the snapshot at the position it has reached, never for one beyond position
\* keep; with an empty listing it makes no call and raises no error.
C7_BackupFirstKeep ==
    /\ InBackup =>
          /\ Len(processed) <= BackupQuota
          /\ \A i \in 1..Len(processed) : processed[i] = snapshots[i].slug
          /\ snapshot # NoSnapshot => snapshot = snapshots[Len(processed)]
          /\ \A i \in 1..Len(ops) : ops[i].slug = snapshots[Len(processed)].slug
          /\ \A i \in 1..Len(calls) :
               \/ calls[i].path = None
               \/ calls[i].path = dropbox_path(DropboxDir, snapshots[Len(processed)])
    /\ (stack # <<>> /\ snapshots = <<>>) =>
          /\ processed = <<>>
          /\ ops = <<>>
          /\ calls = <<>>
          /\ pc # "propagate"
          /\ raisedFrom = None

\* C7 happens: with keep = 2 and three snapshots listed, backup is through after the
\* second one.
C7_Witness ==
    /\ In("backup", "backup_loop")
    /\ keep = KeepOf(2)
    /\ Len(snapshots) = 3
    /\ Len(processed) = 2
    /\ idx > Len(batch)

\* C8 as stated: no error ever leaves process_snapshot.
C8_ProcessNeverRaises == raisedFrom # "process_snapshot"

\* The state of the driver loop of main.
Phase ==
    IF stack = <<>> THEN (IF pc = "returned" THEN "Done" ELSE "Crashed")
    ELSE IF pc = "main_check" THEN "Startup"
    ELSE IF pc = "main_list" THEN "Listing"
    ELSE IF pc = "main_sleep" THEN "Sleeping"
    ELSE IF pc = "propagate" /\ Top(stack) = "main" THEN "Abandoned"
    ELSE IF InBackup THEN "Uploading"
    ELSE "Pruning"

\* main has ended, or has a next step.
CanGoOn == Phase \notin {"Done", "Crashed"} => ENABLED Next

\* C10: every cycle of main goes Listing, Uploading, Pruning, Sleeping; an error in
\* any of the three abandons the cycle and leads to Sleeping; the sleeper is called
\* once and then either a new Listing starts or, only on a truthy result, main ends;
\* no error of a cycle ends main, and main never stops anywhere else.
C10_CycleStructure ==
    [][/\ CASE Phase = "Startup" -> Phase' \in {"Listing", "Done", "Crashed"}
            [] Phase = "Listing" -> Phase' \in {"Uploading", "Sleeping"}
            [] Phase = "Uploading" -> Phase' \in {"Uploading", "Pruning", "Abandoned"}
            [] Phase = "Pruning" -> Phase' \in {"Pruning", "Sleeping", "Abandoned"}
            [] Phase = "Abandoned" -> Phase' = "Sleeping"
            [] Phase = "Sleeping" -> /\ Phase' \in {"Listing", "Done"}
                                     /\ Phase' = "Done" <=> stop' = TRUE
            [] OTHER -> FALSE
       /\ CanGoOn'
      ]_vars

\* C10 happens: an error of limit_snapshots reached the handler of the loop.
C10_Witness ==
    /\ Phase = "Abandoned"
    /\ raisedFrom = "limit_snapshots"
    /\ host # <<>>

\* C11: when users_get_current_account fails with an authentication error, main
\* returns at once: the failing check is the first and the last step of main, it is
\* not retried, and no listing, no store call, no host removal and no sleep was or is
\* ever made.
C11_AuthErrorIsFatal ==
    [][account' = "AuthError" =>
          /\ account = "unchecked"
          /\ Phase = "Startup"
          /\ Phase' = "Done"
          /\ snapshots = <<>> /\ ops = <<>> /\ calls = <<>> /\ processed = <<>>
          /\ stop = FALSE
          /\ UNCHANGED <<host, files, remote, snapshots, ops, calls, processed, stop,
                         batch, expired>>
      ]_vars

\* C11 happens: main has returned on the authentication error, the host's snapshots
\* untouched.
C11_Witness ==
    /\ account = "AuthError"
    /\ stack = <<>>
    /\ pc = "returned"
    /\ Len(host) = MaxSnapshots

\* C12 as stated: once upload_file has returned or raised, all attempts counted, and
\* once compute_dropbox_hash has returned or raised, no handle on the snapshot file is
\* open.
C12_HandlesClosed == (stack = <<>> \/ Top(stack) # "upload_file") => handles = 0

\* files_get_metadata returned an object and the local file cannot be read.
HashReadError ==
    /\ snapshot # NoSnapshot
    /\ metadata.kind = "object"
    /\ (CurFile.kind = "missing" \/ ~CurFile.readable)

\* C13 as stated: when an object exists at the snapshot's path and the local hash
\* cannot be computed, process_snapshot still calls upload_file for the snapshot.
C13_ReadErrorUploads ==
    (HashReadError /\ pc = "ps_done") => CountOps("upload_file") = 1

\* C14 as stated: when process_snapshot is through with a snapshot whose remote path
\* held an object with another hash than the local file's, that object is no longer in
\* place, whatever failed on the way.
C14_NoStaleLeft ==
    (MetadataDiffers /\ pc = "ps_done") =>
        /\ remote[CurPath] # metadata
        /\ \/ remote[CurPath] = NoObject
           \/ remote[CurPath] = RemoteObject(compute_dropbox_hash(CurFile))

\* C15 as stated: when upload_file has returned, on the single-shot path as on the
\* chunked one, 100 is the last percentage it logged and it was logged once.
C15_Reports100 ==
    UploadReturned =>
        /\ progress # <<>>
        /\ Last(progress) = 100
        /\ Cardinality({i \in 1..Len(progress) : progress[i] = 100}) = 1

\* The length of block i of n blocks of a file of the given size.
BlockLen(size, n, i) == IF i < n THEN CHUNK_SIZE ELSE size - (n - 1) * CHUNK_SIZE

\* C16: the hash compute_dropbox_hash returned for the snapshot's file is the digest
\* of the sequence, in read order, of the digests of the file's consecutive blocks of
\* CHUNK_SIZE bytes, the last one between 1 and CHUNK_SIZE bytes long and an empty file
\* having none; it is the hash of exactly the files with that content and size, so
\* that equality with the remote content_hash is equality of contents.
C16_BlockHash ==
    local_hash # NoHash =>
        LET digests == local_hash[2]
            n == Len(digests)
        IN  /\ local_hash[1] = "sha256"
            /\ Len(local_hash) = 2
            /\ (n - 1) * CHUNK_SIZE < CurFile.size
            /\ CurFile.size <= n * CHUNK_SIZE
            /\ CurFile.size = 0 => digests = <<>>
            /\ \A i \in 1..n :
                 /\ BlockLen(CurFile.size, n, i) \in 1..CHUNK_SIZE
                 /\ digests[i] = <<"sha256", <<CurFile.data, (i - 1) * CHUNK_SIZE,
                                               BlockLen(CurFile.size, n, i)>>>>
            /\ \A g \in {u \in UploadFiles \cup {File(1, 2, TRUE)} : u.kind = "file"} :
                 compute_dropbox_hash(g) = local_hash
                     <=> (g.size = CurFile.size /\ g.data = CurFile.data)
            /\ metadata.content_hash = local_hash
                   <=> metadata = RemoteObject(compute_dropbox_hash(CurFile))

\* C16 happens: a file of two whole chunks and 2 MiB was hashed as three blocks, and
\* the hash differs from the remote one.
C16_Witness ==
    /\ local_hash # NoHash
    /\ CurFile.size = 10 * MiB
    /\ Len(local_hash[2]) = 3
    /\ metadata.content_hash # local_hash

\* The calls of the running attempt that take a cursor.
IsCursorCall(c) ==
    c.op = "files_upload_session_append" \/ c.op = "files_upload_session_finish"

\* C17: in a chunked attempt every append and the finish carry the session id the
\* attempt's start returned and, as offset, the bytes sent before them in the session;
\* an append sends exactly CHUNK_SIZE bytes, the finish between 1 and CHUNK_SIZE, and
\* after each append the cursor's offset is the bytes sent so far.
C17_CursorTracksBytes ==
    /\ \A i \in 1..Len(calls) :
         IsCursorCall(calls[i]) =>
             /\ i >= 2
             /\ calls[1].op = "files_upload_session_start"
             /\ calls[1].bytes = CHUNK_SIZE
             /\ calls[i].session_id = calls[2].session_id
             /\ calls[i].session_id >= 1
             /\ calls[i].offset = SumBytes(SubSeq(calls, 1, i - 1))
             /\ calls[i].op = "files_upload_session_append" => calls[i].bytes = CHUNK_SIZE
             /\ calls[i].op = "files_upload_session_finish" =>
                    (calls[i].bytes \in 1..CHUNK_SIZE /\ i = Len(calls))
    /\ (stack # <<>> /\ Top(stack) = "upload_file" /\ pc = "uf_loop") =>
          /\ cursor.session_id = attempt
          /\ \A i \in 2..Len(calls) : calls[i].session_id = cursor.session_id
          /\ Last(calls).op # "files_upload_session_finish" =>
                (cursor.offset = SumBytes(calls) /\ cursor.offset = tell)

\* C17 happens: a file of three chunks and one byte went up as start, two appends
\* and a finish of one byte at offset 3 * CHUNK_SIZE.
C17_Witness ==
    /\ UploadReturned
    /\ Len(calls) = 4
    /\ Last(calls).op = "files_upload_session_finish"
    /\ Last(calls).offset = 3 * CHUNK_SIZE
    /\ Last(calls).bytes = 1

\* C18: every attempt of upload_file starts from byte 0 without a cursor; its first
\* call is a session start (or the single files_upload) sending from byte 0, and its
\* appends and its finish carry the session id of its own start and the bytes sent in
\* this attempt as offset, never those of an earlier attempt.
C18_RetryStartsOver ==
    [][/\ attempt' # attempt => (attempt' = attempt + 1 /\ pc' = "uf_open")
       /\ (stack # <<>> /\ Top(stack) = "upload_file" /\ pc = "uf_open") =>
              (tell' = 0 /\ cursor' = NoCursor /\ calls' = <<>>)
       /\ (calls' # calls /\ calls' # <<>>) =>
              /\ Len(calls') = Len(calls) + 1
              /\ Len(calls') = 1 =>
                     /\ tell = 0
                     /\ calls'[1].op \in {"files_upload_session_start", "files_upload"}
              /\ IsCursorCall(Last(calls')) =>
                     /\ calls'[1].op = "files_upload_session_start"
                     /\ Last(calls').session_id = attempt
                     /\ Last(calls').offset = tell
                     /\ Last(calls').offset = SumBytes(calls)
      ]_vars

\* C18 happens: the third attempt, after two failed ones, is appending in its own
\* session.
C18_Witness ==
    /\ attempt = 3
    /\ pc = "uf_loop"
    /\ Len(calls) = 2
    /\ calls[2].op = "files_upload_session_append"
    /\ calls[2].session_id = 3
    /\ calls[2].offset = CHUNK_SIZE
    /\ calls[2].ok

\* C20 as stated: with keep = N > 0 and more than N snapshots listed, the N snapshots
\* backup processed, the first N in the order of list_snapshots, are the N snapshots
\* limit_snapshots retains after its own sort: none of them is among the expired.
C20_SameSnapshots ==
    [][(In("limit_snapshots", "ls_begin") /\ OverLimit) =>
          /\ SlugsOf(SubSeq(snapshots, 1, keep[1])) = SlugsOf(SubSeq(snapshots', 1, keep[1]))
          /\ SlugsOf(SubSeq(snapshots, 1, keep[1])) \cap SlugsOf(expired') = {}
      ]_vars

\* Snapshot s is half deleted: limit_snapshots removed it from the source host and its
\* object is still in the store.
HalfDeleted(s) ==
    /\ host # <<>>
    /\ s \notin HostSlugs
    /\ remote[dropbox_path(DropboxDir, Snapshot(s, 1))].kind = "object"

\* C19 as stated: a cycle in which the collaborators no longer fail completes the
\* deletions an earlier cycle left half done: when limit_snapshots returns in such a
\* cycle, no snapshot is gone from the source host with its object still in the store.
C19_CycleRepairs ==
    [][(healthy /\ stack # <<>> /\ Top(stack) = "limit_snapshots" /\ pc' = "main_sleep") =>
          \A s \in Slugs : ~HalfDeleted(s)'
      ]_vars

====
